---- MODULE Spec2Model ----
(***************************************************************************)
(* Model of foxtrot's per-tick character movement (GeneralMovementPlugin). *)
(*                                                                         *)
(* One tick is one run of the system set added in                          *)
(* GeneralMovementPlugin::build.  Bevy's executor starts a system only     *)
(* when every system it is declared `.after` has finished, and it never    *)
(* runs two systems with conflicting component access at the same time, so *)
(* each system is one atomic action and a tick is any linear extension of  *)
(* the declared label order.  The physics step of the external character   *)
(* controller runs in its own stage after the system set.                  *)
(*                                                                         *)
(* f32 and Vec3 values are modelled as exact rationals <<n, d>> and        *)
(* triples of them: rounding of f32 arithmetic is not modelled.            *)
(***************************************************************************)
EXTENDS Integers, Sequences, FiniteSets, TLC

\* ------------------------------------------------------------------ bounds
\* Number of ticks (frames in GameState::Playing) a behaviour runs.
MaxTick == 2

\* Number of entities of a hierarchy handed to get_top_parent.
MaxEntities == 4

\* Number of SpawnEvents sent in a behaviour.
MaxEvents == 4

\* Number of Collision events of one frame.
MaxCollisions == 2

\* ------------------------------------------------------- rational numbers
Abs(n) == IF n < 0 THEN -n ELSE n

RECURSIVE GCD(_, _)
GCD(a, b) == IF b = 0 THEN a ELSE GCD(b, a % b)

\* The rational n/d in lowest terms with a positive denominator.
Rat(n, d) ==
    LET s == IF d < 0 THEN -1 ELSE 1
        g == GCD(Abs(n), Abs(d))
    IN  <<(s * n) \div g, (s * d) \div g>>

RZero == <<0, 1>>
RHalf == <<1, 2>>
RAdd(a, b) ==
    LET g == GCD(a[2], b[2])
    IN  Rat(a[1] * (b[2] \div g) + b[1] * (a[2] \div g), (a[2] \div g) * b[2])
RNeg(a) == <<-a[1], a[2]>>
RMul(a, b) ==
    LET g1 == GCD(Abs(a[1]), b[2])
        g2 == GCD(Abs(b[1]), a[2])
    IN  IF a[1] = 0 \/ b[1] = 0 THEN RZero
        ELSE Rat((a[1] \div g1) * (b[1] \div g2), (a[2] \div g2) * (b[2] \div g1))
RDiv(a, b) == RMul(a, Rat(b[2], b[1]))
RLess(a, b) == a[1] * b[2] < b[1] * a[2]

\* ------------------------------------------------------------------- Vec3
Vec3(x, y, z) == <<x, y, z>>
ZERO == Vec3(RZero, RZero, RZero)
Y == Vec3(RZero, <<1, 1>>, RZero)
X == Vec3(<<1, 1>>, RZero, RZero)
VAdd(u, v) == Vec3(RAdd(u[1], v[1]), RAdd(u[2], v[2]), RAdd(u[3], v[3]))
VNeg(u) == Vec3(RNeg(u[1]), RNeg(u[2]), RNeg(u[3]))
VMul(u, r) == Vec3(RMul(u[1], r), RMul(u[2], r), RMul(u[3], r))
VDiv(u, r) == Vec3(RDiv(u[1], r), RDiv(u[2], r), RDiv(u[3], r))
length_squared(u) == RAdd(RAdd(RMul(u[1], u[1]), RMul(u[2], u[2])), RMul(u[3], u[3]))

\* util::trait_extension::Vec3Ext
x0z(u) == Vec3(u[1], RZero, u[3])
is_approx_zero(u) == RLess(length_squared(u), <<1, 100000>>)

None == <<"None">>
Some(v) == <<"Some", v>>
Unwrap(o) == o[2]

\* --------------------------------------------------------------- entities
\* Two moving bodies; entity b + 10 is the presentation entity (the one
\* holding the AnimationPlayer and the Transform the model is rotated by).
Bodies == {1, 2}
Model(b) == b + 10

\* Values the spawner gives each body; immutable afterwards.
SpawnMass == [b \in Bodies |-> IF b = 1 THEN <<1, 1>> ELSE <<2, 1>>]
JumpG == [b \in Bodies |-> <<49, 5>>]
JumpImpulse == [b \in Bodies |-> <<5, 1>>]
ControllerUp == [b \in Bodies |-> Y]

\* Tick durations Time::delta_seconds() may report.
DtSet == {<<1, 10>>, <<1, 2>>}

\* What the intent producer may write to Walker.direction in one tick: nobody
\* walks, or every body walks along X.
WalkIntents == {[b \in Bodies |-> None], [b \in Bodies |-> Some(X)]}

Systems == {"update_grounded", "apply_gravity", "apply_walking", "apply_jumping",
            "apply_drag", "apply_force", "reset_movement_components",
            "rotate_model", "play_animations"}

VARIABLES
    tick,        \* number of the current tick
    phase,       \* "update": the system set is running; "physics": it has finished
    done,        \* systems of the set that have run in the current tick
    dt,          \* Time::delta_seconds() of the current tick
    force,       \* Force.0 of each body
    velocity,    \* Velocity.0 of each body
    grounded,    \* Grounded state of each body
    jump,        \* Jump.requested of each body
    walker,      \* Walker.direction of each body
    controller,  \* KinematicCharacterController.translation of each body
    output,      \* KinematicCharacterControllerOutput of each body, None when absent
    link,        \* AnimationEntityLink.0 of each body
    transform,   \* facing of each presentation entity
    playing,     \* clip the AnimationPlayer of each presentation entity plays
    v0,          \* history: Velocity.0 of each body when the tick began
    pressed,     \* history: bodies whose jump was requested for the current tick
    jumped,      \* history: what apply_jumping added to each body's Force this tick
    outputOf,    \* history: tick whose requested translation each output was resolved from
    seen,        \* history: outputOf of the output rotate_model and play_animations
                 \*   read for each body in the current tick, -1 when they read none
    mass,        \* Mass.0 of each body
    aborted,     \* a system has panicked: the application is gone
    \* --- the entity hierarchy (spawning/animation_link.rs)
    parent,             \* Parent of each entity, 0 for an entity without one
    curr_entity,        \* get_top_parent: the entity it was called with
    last_two_entities,  \* get_top_parent: the local array
    top_entity,         \* the value get_top_parent returned, 0 before it has
    topPc,              \* get_top_parent: "idle", "loop" or "returned"
    iterations,         \* history: loop iterations of the current call
    \* --- spawning.rs
    spawn_requests,     \* Events<SpawnEvent> the reader of spawn_requested has not read
    spawn_containers,   \* SpawnContainerRegistry: name -> entity, 0 for no entry
    world,              \* the spawned entities: world[e] is entity e
    sent,               \* history: number of SpawnEvents sent so far
    \* --- link_animations (spawning/animation_link.rs)
    added,              \* entities whose AnimationPlayer was added since the last run
    animation_link,     \* AnimationEntityLink of each entity, None for an entity without
    discovered,         \* history: the players link_animations iterated, in that order
    warned,             \* history: the players link_animations warned about
    \* --- world_interaction/interactions_ui.rs
    interactRan,            \* the systems of the file that ran in the current frame
    collisions,             \* Events<Collision> of the current frame
    camera,                 \* camera_query.iter().next(): None or Some(camera)
    just_pressed,           \* ActionState::just_pressed(PlayerAction::Interact)
    primary_window,         \* whether primary_windows.get_single() is Ok
    has_dialogue_runner,    \* whether an entity has a DialogueRunner
    interaction_opportunity,\* InteractionOpportunity.0
    freeze_count,           \* ActionsFrozen
    current_node,           \* the node the DialogueRunner runs, None when it runs none
    started                 \* history: calls of start_node since actions were last unfrozen

topVars == <<parent, curr_entity, last_two_entities, top_entity, topPc, iterations>>

spawnVars == <<spawn_requests, spawn_containers, world, sent>>

animVars == <<added, animation_link, discovered, warned>>

\* What the movement systems never touch.
interactVars ==
    <<interactRan, collisions, camera, just_pressed, primary_window, has_dialogue_runner,
      interaction_opportunity, freeze_count, current_node, started>>

\* What the movement systems never touch.
otherVars == <<topVars, spawnVars, animVars, interactVars>>

movementVars ==
    <<tick, phase, done, dt, force, velocity, grounded, jump, walker, controller,
      output, link, transform, playing, v0, pressed, jumped, outputOf, seen, mass, aborted>>

\* Mass.0 of each body, as the systems read it.
Mass == mass

vars == <<movementVars, otherVars>>

\* What get_top_parent and spawn_requested never touch.
notTopVars == <<movementVars, spawnVars, animVars, interactVars>>
notSpawnVars == <<movementVars, topVars, animVars, interactVars>>
notAnimVars == <<movementVars, topVars, spawnVars, interactVars>>
notInteractVars == <<movementVars, topVars, spawnVars, animVars>>

\* ------------------------------------------------------------- scheduling
\* <<a, b>>: system a is declared to run before system b
\* (`.after(a)` on b, or `.before(b)` on a).
Order ==
    { <<"update_grounded", "apply_gravity">>, <<"apply_gravity", "apply_force">>,
      <<"update_grounded", "apply_walking">>, <<"apply_walking", "apply_force">>,
      <<"update_grounded", "apply_jumping">>, <<"apply_jumping", "apply_force">>,
      <<"apply_walking", "apply_drag">>, <<"apply_gravity", "apply_drag">>,
      <<"apply_drag", "apply_force">>,
      <<"apply_force", "reset_movement_components">> }

\* Mutant: apply_drag loses its `.before("apply_force")`.
BeforeWithoutDragEdge(s) ==
    {a \in Systems : <<a, s>> \in Order \ {<<"apply_drag", "apply_force">>}}

\* The systems that must have finished before s may start.
Before(s) == {a \in Systems : <<a, s>> \in Order}

\* Mutant: the two presentation systems are added to a stage that runs after
\* the physics step instead of to the system set.
UpdateStageWithoutPresentation == Systems \ {"rotate_model", "play_animations"}

\* The systems `build` adds to the on_update(GameState::Playing) set: the stage
\* runs all of them before the physics step.
UpdateStage == Systems

CanRun(s) ==
    /\ ~aborted
    /\ tick > 0
    /\ phase = "update" \/ s \notin UpdateStage
    /\ s \notin done
    /\ Before(s) \subseteq done

\* Bodies a query with a KinematicCharacterControllerOutput term matches: the
\* component is absent until the controller has resolved a first translation.
WithOutput == {b \in Bodies : output[b] # None}

\* ------------------------------------------------- components (not in src)
\* Grounded::try_set
Grounded_try_set(old, new) == new

\* Walker::calculate_acceleration
GroundAcceleration == <<8, 1>>
AirAcceleration == <<2, 1>>
calculate_acceleration(direction, is_grounded) ==
    IF direction = None THEN None
    ELSE Some(VMul(Unwrap(direction),
                   IF is_grounded THEN GroundAcceleration ELSE AirAcceleration))

\* Drag::calculate_force
DragCoefficient == <<1, 1>>
calculate_force(v) == VNeg(VMul(v, DragCoefficient))

\* ------------------------------------------------------------ the systems
\* Mutant: the new classification is computed and dropped.
update_grounded_stale(b) == grounded[b]

\* body of the loop of update_grounded
update_grounded_body(b) == Grounded_try_set(grounded[b], Unwrap(output[b]).grounded)

update_grounded ==
    /\ CanRun("update_grounded")
    /\ grounded' = [b \in Bodies |->
                       IF b \in WithOutput THEN update_grounded_body(b) ELSE grounded[b]]
    /\ done' = done \cup {"update_grounded"}
    /\ UNCHANGED <<tick, phase, dt, force, velocity, jump, walker, controller, output,
                   link, transform, playing, v0, pressed, jumped, outputOf, seen, mass, aborted, otherVars>>

gravitational_force(b) == VMul(VMul(VNeg(ControllerUp[b]), JumpG[b]), Mass[b])

apply_gravity ==
    /\ CanRun("apply_gravity")
    /\ force' = [b \in Bodies |-> VAdd(force[b], gravitational_force(b))]
    /\ done' = done \cup {"apply_gravity"}
    /\ UNCHANGED <<tick, phase, dt, velocity, grounded, jump, walker, controller, output,
                   link, transform, playing, v0, pressed, jumped, outputOf, seen, mass, aborted, otherVars>>

walking_force(b) ==
    LET acceleration == calculate_acceleration(walker[b], grounded[b])
    IN  IF acceleration = None THEN None
        ELSE Some(VMul(Unwrap(acceleration), Mass[b]))

apply_walking ==
    /\ CanRun("apply_walking")
    /\ force' = [b \in Bodies |->
                    IF walking_force(b) = None THEN force[b]
                    ELSE VAdd(force[b], Unwrap(walking_force(b)))]
    /\ done' = done \cup {"apply_walking"}
    /\ UNCHANGED <<tick, phase, dt, velocity, grounded, jump, walker, controller, output,
                   link, transform, playing, v0, pressed, jumped, outputOf, seen, mass, aborted, otherVars>>

\* Mutant: the ground check is dropped.
jump_fires_airborne(b) == jump[b]

\* condition of the `if` of apply_jumping
jump_fires(b) == jump[b] /\ grounded[b]

\* Mutant: the impulse is added as a plain force, not scaled by 1/dt.
jump_force_unscaled(b) == VMul(ControllerUp[b], JumpImpulse[b])

\* controller.up * jump.impulse / dt
jump_force(b) == VDiv(VMul(ControllerUp[b], JumpImpulse[b]), dt)

apply_jumping ==
    /\ CanRun("apply_jumping")
    /\ force' = [b \in Bodies |->
                    IF jump_fires(b) THEN VAdd(force[b], jump_force(b)) ELSE force[b]]
    /\ jumped' = [b \in Bodies |-> IF jump_fires(b) THEN jump_force(b) ELSE ZERO]
    /\ done' = done \cup {"apply_jumping"}
    /\ UNCHANGED <<tick, phase, dt, velocity, grounded, jump, walker, controller, output,
                   link, transform, playing, v0, pressed, outputOf, seen, mass, aborted, otherVars>>

\* Mutant: the drag applied to the velocity itself as well as to the force.
apply_drag_damps_velocity ==
    /\ CanRun("apply_drag")
    /\ force' = [b \in Bodies |-> VAdd(force[b], calculate_force(velocity[b]))]
    /\ velocity' = [b \in Bodies |-> VMul(velocity[b], RHalf)]
    /\ done' = done \cup {"apply_drag"}
    /\ UNCHANGED <<tick, phase, dt, grounded, jump, walker, controller, output,
                   link, transform, playing, v0, pressed, jumped, outputOf, seen, mass, aborted, otherVars>>

apply_drag ==
    /\ CanRun("apply_drag")
    /\ force' = [b \in Bodies |-> VAdd(force[b], calculate_force(velocity[b]))]
    /\ done' = done \cup {"apply_drag"}
    /\ UNCHANGED <<tick, phase, dt, velocity, grounded, jump, walker, controller, output,
                   link, transform, playing, v0, pressed, jumped, outputOf, seen, mass, aborted, otherVars>>

\* let acceleration = force.0 / mass.0;
acceleration(f, b) == VDiv(f, Mass[b])

\* Mutant: the second-order term is left out.
desired_translation_first_order(f, v, b) == VMul(v, dt)

\* let desired_translation = velocity.0 * dt + 0.5 * acceleration * dt * dt;
desired_translation(f, v, b) ==
    VAdd(VMul(v, dt), VMul(VMul(VMul(acceleration(f, b), RHalf), dt), dt))

\* velocity.0 += acceleration * dt;
integrated_velocity(f, v, b) == VAdd(v, VMul(acceleration(f, b), dt))

apply_force ==
    /\ CanRun("apply_force")
    /\ velocity' = [b \in Bodies |-> integrated_velocity(force[b], velocity[b], b)]
    /\ controller' = [b \in Bodies |-> Some(desired_translation(force[b], velocity[b], b))]
    /\ done' = done \cup {"apply_force"}
    /\ UNCHANGED <<tick, phase, dt, force, grounded, jump, walker, output,
                   link, transform, playing, v0, pressed, jumped, outputOf, seen, mass, aborted, otherVars>>

\* Mutant: the request of a jump that was not honoured is kept.
reset_jump_keep_unhonoured(b) == jump[b] /\ jumped[b] = ZERO

\* jumper.requested = false;
reset_jump(b) == FALSE

\* Mutant: the accumulator is not cleared.
reset_force_kept(b) == force[b]

\* force.0 = Vec3::ZERO;
reset_force(b) == ZERO

\* Mutant: the walk direction is not cleared.
reset_walker_kept(b) == walker[b]

\* walker.direction = None;
reset_walker(b) == None

reset_movement_components ==
    /\ CanRun("reset_movement_components")
    /\ force' = [b \in Bodies |-> reset_force(b)]
    /\ walker' = [b \in Bodies |-> reset_walker(b)]
    /\ jump' = [b \in Bodies |-> reset_jump(b)]
    /\ done' = done \cup {"reset_movement_components"}
    /\ UNCHANGED <<tick, phase, dt, velocity, grounded, controller, output,
                   link, transform, playing, v0, pressed, jumped, outputOf, seen, mass, aborted, otherVars>>

\* Direction of a non-zero horizontal vector: the vector scaled so that its
\* largest component has magnitude 1 (looking_at only uses the direction).
Max(a, b) == IF RLess(a, b) THEN b ELSE a
RAbs(a) == <<Abs(a[1]), a[2]>>
looking_at(u) == VDiv(u, Max(RAbs(u[1]), RAbs(u[3])))

horizontal_movement(b) == x0z(Unwrap(output[b]).effective_translation)

\* Entity::from_raw(0), the link AnimationEntityLink::default() holds.
DefaultLink == 0

\* Queries iterate the bodies in the order of their entity ids.
First(S) == CHOOSE x \in S : \A y \in S : x <= y
Last(S) == CHOOSE x \in S : \A y \in S : y <= x

\* transforms.get_mut(e) is Ok
has_transform(e) == e \in DOMAIN transform

\* Bodies rotate_model does not `continue` on.
Moving == {b \in WithOutput : ~is_approx_zero(horizontal_movement(b))}

\* rotate_model resolving the link before it looks at the motion.
rotate_model_resolves_first ==
    LET bad == {b \in WithOutput : ~has_transform(link[b])}
    IN  IF bad = {} THEN 0 ELSE First(bad)

\* The body at which `.unwrap()` panics in rotate_model, 0 when at none.
rotate_model_panics_at ==
    LET bad == {b \in Moving : ~has_transform(link[b])}
    IN  IF bad = {} THEN 0 ELSE First(bad)

\* Bodies whose loop iteration rotate_model enters.
rotate_model_visits ==
    {b \in WithOutput : rotate_model_panics_at = 0 \/ b <= rotate_model_panics_at}

rotate_model ==
    /\ CanRun("rotate_model")
    /\ LET turned == {b \in Moving \cap rotate_model_visits : has_transform(link[b])}
       IN  transform' = [e \in DOMAIN transform |->
                           IF \E b \in turned : link[b] = e
                           THEN looking_at(horizontal_movement(
                                    Last({b \in turned : link[b] = e})))
                           ELSE transform[e]]
    /\ seen' = [seen EXCEPT !["rotate_model"] =
                    [b \in Bodies |-> IF b \in rotate_model_visits THEN outputOf[b] ELSE -1]]
    /\ aborted' = (rotate_model_panics_at # 0)
    /\ done' = done \cup {"rotate_model"}
    /\ UNCHANGED <<tick, phase, dt, force, velocity, grounded, jump, walker, controller,
                   output, link, playing, v0, pressed, jumped, outputOf, mass, otherVars>>

\* Mutant: the horizontal motion is tested before the ground flag.
selected_clip_walk_first(b) ==
    IF ~is_approx_zero(horizontal_movement(b)) THEN "walk"
    ELSE IF ~grounded[b] THEN "aerial"
    ELSE "idle"

\* the if / else if / else of play_animations
selected_clip(b) ==
    IF ~grounded[b] THEN "aerial"
    ELSE IF ~is_approx_zero(horizontal_movement(b)) THEN "walk"
    ELSE "idle"

\* animation_player.get_mut(e) is Ok
has_animation_player(e) == e \in DOMAIN playing

\* Mutant: `if let Ok(..) else { continue }` instead of `.expect(..)`.
play_animations_never_panics ==
    LET bad == {b \in WithOutput : FALSE}
    IN  IF bad = {} THEN 0 ELSE First(bad)

\* The body at which `.expect(..)` panics in play_animations, 0 when at none.
play_animations_panics_at ==
    LET bad == {b \in WithOutput : ~has_animation_player(link[b])}
    IN  IF bad = {} THEN 0 ELSE First(bad)

\* Bodies whose loop iteration play_animations enters.
play_animations_visits ==
    {b \in WithOutput : play_animations_panics_at = 0 \/ b <= play_animations_panics_at}

play_animations ==
    /\ CanRun("play_animations")
    /\ LET animated == {b \in play_animations_visits : has_animation_player(link[b])}
       IN  playing' = [e \in DOMAIN playing |->
                         IF \E b \in animated : link[b] = e
                         THEN selected_clip(Last({b \in animated : link[b] = e}))
                         ELSE playing[e]]
    /\ seen' = [seen EXCEPT !["play_animations"] =
                    [b \in Bodies |-> IF b \in play_animations_visits THEN outputOf[b] ELSE -1]]
    /\ aborted' = (play_animations_panics_at # 0)
    /\ done' = done \cup {"play_animations"}
    /\ UNCHANGED <<tick, phase, dt, force, velocity, grounded, jump, walker, controller,
                   output, link, transform, v0, pressed, jumped, outputOf, mass, otherVars>>

\* ------------------------------------------------- external collaborators
\* What the character controller makes of a requested translation: ground
\* contact stops the downward part of the motion.
resolve(t, is_grounded) ==
    IF is_grounded /\ t[2][1] < 0 THEN Vec3(t[1], RZero, t[3]) ELSE t

\* The physics step that follows the system set: the controller takes each
\* requested translation and writes the resolved motion and the ground flag.
step_character_controller ==
    /\ ~aborted
    /\ phase = "update"
    /\ UpdateStage \subseteq done
    /\ \E g \in [Bodies -> BOOLEAN] :
          /\ output' = [b \in Bodies |->
                          IF controller[b] = None THEN output[b]
                          ELSE Some([grounded |-> g[b],
                                     effective_translation |->
                                         resolve(Unwrap(controller[b]), g[b])])]
          /\ outputOf' = [b \in Bodies |->
                            IF controller[b] = None THEN outputOf[b] ELSE tick]
    /\ controller' = [b \in Bodies |-> None]
    /\ phase' = "physics"
    /\ UNCHANGED <<tick, done, dt, force, velocity, grounded, jump, walker,
                   link, transform, playing, v0, pressed, jumped, seen, mass, aborted, otherVars>>

\* The start of the next frame: the clock advances and the intent producer
\* (input, AI) writes Walker.direction and Jump.requested.
begin_tick ==
    /\ ~aborted
    /\ phase = "physics"
    /\ done = Systems \/ tick = 0
    /\ tick < MaxTick
    /\ tick' = tick + 1
    /\ phase' = "update"
    /\ done' = {}
    /\ dt' \in DtSet
    /\ \E p \in SUBSET Bodies :
          /\ jump' = [b \in Bodies |-> jump[b] \/ b \in p]
          /\ pressed' = p
    /\ walker' \in WalkIntents
    /\ v0' = velocity
    /\ jumped' = [b \in Bodies |-> ZERO]
    /\ seen' = [s \in {"rotate_model", "play_animations"} |-> [b \in Bodies |-> -1]]
    /\ UNCHANGED <<force, velocity, grounded, controller, output, link, transform,
                   playing, outputOf, mass, aborted, otherVars>>

\* ------------------------------------------- spawning/animation_link.rs
Entities == 1 .. MaxEntities

\* The Parent components of a hierarchy: parent_query.get(e) is Ok(p[e])
\* where p[e] # 0 and Err where p[e] = 0.
RECURSIVE ReachesRoot(_, _, _)
ReachesRoot(p, e, n) ==
    IF p[e] = 0 THEN TRUE ELSE IF n = 0 THEN FALSE ELSE ReachesRoot(p, p[e], n - 1)
Hierarchies ==
    {p \in [Entities -> Entities \cup {0}] :
        \A e \in Entities : ReachesRoot(p, e, MaxEntities)}

\* A hierarchy in which nothing happens: what the movement systems run beside.
TopIdle ==
    /\ parent = [e \in Entities |-> 0]
    /\ curr_entity = 0
    /\ last_two_entities = <<0, 0>>
    /\ top_entity = 0
    /\ topPc = "idle"
    /\ iterations = 0


\* let mut last_two_entities = [curr_entity; 2];
call_get_top_parent ==
    /\ topPc \in {"idle", "returned"}
    /\ \E e \in Entities :
          /\ curr_entity' = e
          /\ last_two_entities' = <<e, e>>
    /\ top_entity' = 0
    /\ topPc' = "loop"
    /\ iterations' = 0
    /\ UNCHANGED <<parent, notTopVars>>

\* if let Ok(parent) = parent_query.get(last_two_entities[0]) { .. }
loop_get_top_parent ==
    /\ topPc = "loop"
    /\ parent[last_two_entities[1]] # 0
    /\ last_two_entities' = <<parent[last_two_entities[1]], last_two_entities[1]>>
    /\ iterations' = iterations + 1
    /\ UNCHANGED <<parent, curr_entity, top_entity, topPc, notTopVars>>

\* Mutant: the organizational node itself is returned.
get_top_parent_returns_root(l) == l[1]

\* The value returned: last_two_entities[1] (Rust indexes from 0).
get_top_parent_returns(l) == l[2]

\* else { break; }  and the return
return_get_top_parent ==
    /\ topPc = "loop"
    /\ parent[last_two_entities[1]] = 0
    /\ topPc' = "returned"
    /\ top_entity' = get_top_parent_returns(last_two_entities)
    /\ UNCHANGED <<parent, curr_entity, last_two_entities, iterations, notTopVars>>

TopInit ==
    /\ parent \in Hierarchies
    /\ curr_entity = 0
    /\ last_two_entities = <<0, 0>>
    /\ top_entity = 0
    /\ topPc = "idle"
    /\ iterations = 0


\* ------------------------------------------------------------ spawning.rs
\* The names a SpawnEvent may give as its parent, and the objects it may ask for.
ParentNames == {"a", "b"}
GameObject == {"Grass", "Wall"}

\* SpawnEvent { object, transform, parent }; the transform plays no part.
SpawnEvent == [object : GameObject, parent : {None} \cup {Some(n) : n \in ParentNames}]

\* The (Name, VisibilityBundle, TransformBundle) of a container, and the bundle
\* of a requested object; `child_of` is the Parent, 0 for none, and `request`
\* the event the entity was spawned for, None for a container.
container_bundle(parent_name) ==
    [name |-> parent_name, container |-> TRUE, child_of |-> 0, request |-> None]
bundle(spawn, p) ==
    [name |-> spawn.object, container |-> FALSE, child_of |-> p, request |-> Some(spawn)]

\* Mutant: the registry is not consulted, every event spawns its container.
or_insert_always(reg, parent_name, fresh) == fresh

\* spawn_containers.0.entry(parent_name).or_insert_with(|| commands.spawn(..).id())
or_insert_with(reg, parent_name, fresh) ==
    IF reg[parent_name] # 0 THEN reg[parent_name] ELSE fresh

\* One turn of the loop of spawn_requested on registry reg and entities w.
spawn_one(spawn, reg, w) ==
    IF spawn.parent # None
    THEN LET parent_name == Unwrap(spawn.parent)
             fresh == Len(w) + 1
             p == or_insert_with(reg, parent_name, fresh)
             w1 == IF p = fresh THEN Append(w, container_bundle(parent_name)) ELSE w
         IN  [reg |-> [reg EXCEPT ![parent_name] = p],
              world |-> Append(w1, bundle(spawn, p))]
    ELSE [reg |-> reg, world |-> Append(w, bundle(spawn, 0))]

\* for spawn in spawn_requests.iter() { .. }
RECURSIVE spawn_all(_, _, _)
spawn_all(requests, reg, w) ==
    IF requests = <<>> THEN [reg |-> reg, world |-> w]
    ELSE LET r == spawn_one(Head(requests), reg, w)
         IN  spawn_all(Tail(requests), r.reg, r.world)

\* Some system sends a SpawnEvent.
send_spawn_event ==
    /\ sent < MaxEvents
    /\ \E spawn \in SpawnEvent : spawn_requests' = Append(spawn_requests, spawn)
    /\ sent' = sent + 1
    /\ UNCHANGED <<spawn_containers, world, notSpawnVars>>

\* One run of spawn_requested, with the commands it queued applied.
spawn_requested ==
    /\ LET r == spawn_all(spawn_requests, spawn_containers, world)
       IN  /\ spawn_containers' = r.reg
           /\ world' = r.world
    /\ spawn_requests' = <<>>
    /\ UNCHANGED <<sent, notSpawnVars>>

\* No event sent, the default (empty) registry, nothing spawned.
SpawnInit ==
    /\ spawn_requests = <<>>
    /\ spawn_containers = [n \in ParentNames |-> 0]
    /\ world = <<>>
    /\ sent = 0


\* ------------------------------- spawning/animation_link.rs: link_animations
\* The value of get_top_parent(curr_entity, &parent_query): the loop run to
\* its break.
RECURSIVE climb(_)
climb(l) == IF parent[l[1]] # 0 THEN climb(<<parent[l[1]], l[1]>>) ELSE l
get_top_parent(e) == get_top_parent_returns(climb(<<e, e>>))

\* The orders in which a query may iterate the entities of S.
Orders(S) ==
    {o \in [1 .. Cardinality(S) -> S] : \A i, j \in DOMAIN o : o[i] = o[j] => i = j}

\* The loop of link_animations over the players in iteration order `order`:
\* the insert commands it queues, as <<top_entity, entity>>, and the players
\* it warns about. The links it tests are the ones of the world as the
\* system started: commands are applied after the system has returned.
RECURSIVE link_loop(_, _, _)
link_loop(order, commands, warnings) ==
    IF order = <<>> THEN [commands |-> commands, warnings |-> warnings]
    ELSE LET entity == Head(order)
             top == get_top_parent(entity)
         IN  IF animation_link[top] # None
             THEN link_loop(Tail(order), commands, Append(warnings, entity))
             ELSE link_loop(Tail(order), Append(commands, <<top, entity>>), warnings)

\* The queued commands.entity(top_entity).insert(AnimationEntityLink(entity)),
\* applied in the order they were queued.
RECURSIVE apply_inserts(_, _)
apply_inserts(commands, links) ==
    IF commands = <<>> THEN links
    ELSE apply_inserts(Tail(commands),
                       [links EXCEPT ![Head(commands)[1]] = Some(Head(commands)[2])])

\* A scene instance is spawned: some entities get their AnimationPlayer.
add_animation_players ==
    /\ \E S \in SUBSET Entities :
          /\ S # {}
          /\ \A e \in S : e \notin added /\ \A i \in DOMAIN discovered : discovered[i] # e
          /\ added' = added \cup S
    /\ UNCHANGED <<animation_link, discovered, warned, notAnimVars>>

\* One run of link_animations and the application of its commands.
link_animations ==
    /\ \E order \in Orders(added) :
          LET r == link_loop(order, <<>>, <<>>)
          IN  /\ animation_link' = apply_inserts(r.commands, animation_link)
              /\ warned' = warned \o r.warnings
              /\ discovered' = discovered \o order
    /\ added' = {}
    /\ UNCHANGED notAnimVars

\* No AnimationPlayer added yet and no entity linked.
AnimInit ==
    /\ added = {}
    /\ animation_link = [e \in Entities |-> None]
    /\ discovered = <<>>
    /\ warned = <<>>


\* ------------------------------------ world_interaction/interactions_ui.rs
\* The scene the interaction systems run in: the player (entity 1), two
\* entities with a DialogTarget (2 and 4) and one without (6), each with a
\* sensor collider as its child (3, 5, 7), and a collider without a parent (8).
Players == {1}
DialogTargets == {2, 4}
SensorParent == (3 :> 2) @@ (5 :> 4) @@ (7 :> 6)
Translation ==
    (1 :> ZERO) @@ (2 :> Vec3(<<2, 1>>, RZero, RZero)) @@ (4 :> Vec3(RZero, RZero, <<3, 1>>))
        @@ (6 :> X)

\* Collision(contacts): the fields of the contacts the system reads.
Collision ==
    {[entity1 |-> 1, entity2 |-> 3, during_current_frame |-> TRUE],
     [entity1 |-> 3, entity2 |-> 1, during_current_frame |-> TRUE],
     [entity1 |-> 1, entity2 |-> 3, during_current_frame |-> FALSE],
     [entity1 |-> 1, entity2 |-> 5, during_current_frame |-> TRUE],
     [entity1 |-> 1, entity2 |-> 7, during_current_frame |-> TRUE],
     [entity1 |-> 1, entity2 |-> 8, during_current_frame |-> TRUE],
     [entity1 |-> 3, entity2 |-> 5, during_current_frame |-> TRUE]}
CollisionBatches == UNION {[1 .. n -> Collision] : n \in 0 .. MaxCollisions}

\* (IngameCamera, Transform): the kind and the forward direction.
Cameras ==
    {[kind |-> "FixedAngle", forward |-> VNeg(Y)]}
        \cup {[kind |-> "ThirdPerson", forward |-> f] :
                  f \in {X, VNeg(X), Vec3(<<2, 1>>, RZero, <<1, 1>>)}}

InteractSystems == {"update_interaction_opportunities", "display_interaction_prompt"}

\* get_player_and_target(&player_query, entity_a, entity_b)
get_player_and_target(entity_a, entity_b) ==
    IF entity_a \in Players THEN Some(<<entity_a, entity_b>>)
    ELSE IF entity_b \in Players THEN Some(<<entity_b, entity_a>>)
    ELSE None

\* u.angle_between(v) < TAU / 8.: the cosine is above that of an eighth of a
\* turn, dot > 0 and 2 dot^2 > |u|^2 |v|^2 (false for a zero vector, for which
\* angle_between is NaN).
dot(u, v) == RAdd(RAdd(RMul(u[1], v[1]), RMul(u[2], v[2])), RMul(u[3], v[3]))
angle_between_below_eighth_turn(u, v) ==
    /\ RLess(RZero, dot(u, v))
    /\ RLess(RMul(length_squared(u), length_squared(v)),
             RMul(<<2, 1>>, RMul(dot(u, v), dot(u, v))))

\* is_facing_target(player, target, camera_transform, camera)
is_facing_target(player, target, cam) ==
    IF cam.kind = "FixedAngle" THEN TRUE
    ELSE LET camera_to_player == cam.forward
             player_to_target == VAdd(target, VNeg(player))
         IN  angle_between_below_eighth_turn(camera_to_player, player_to_target)

\* One turn of the loop of update_interaction_opportunities: the opportunity
\* after contacts were read when it was opp before.
read_collision(contacts, opp) ==
    LET found == get_player_and_target(contacts.entity1, contacts.entity2)
    IN  IF found = None THEN opp
        ELSE LET player == Unwrap(found)[1]
                 sensor == Unwrap(found)[2]
             IN  IF sensor \notin DOMAIN SensorParent THEN opp
                 ELSE LET target == SensorParent[sensor]
                      IN  IF target \notin DialogTargets THEN opp
                          ELSE IF ~contacts.during_current_frame THEN opp
                          ELSE IF camera = None THEN opp
                          ELSE IF is_facing_target(Translation[player], Translation[target],
                                                   Unwrap(camera))
                               THEN Some(target)
                               ELSE opp

RECURSIVE read_collisions(_, _)
read_collisions(events, opp) ==
    IF events = <<>> THEN opp
    ELSE read_collisions(Tail(events), read_collision(Head(events), opp))

\* Mutant: the opportunity of the last run is kept as the starting value.
opportunity_kept(opp) == opp

\* interaction_opportunity.0 = None;
opportunity_reset(opp) == None

update_interaction_opportunities ==
    /\ "update_interaction_opportunities" \notin interactRan
    /\ interaction_opportunity' =
          read_collisions(collisions, opportunity_reset(interaction_opportunity))
    /\ interactRan' = interactRan \cup {"update_interaction_opportunities"}
    /\ UNCHANGED <<collisions, camera, just_pressed, primary_window, has_dialogue_runner,
                   freeze_count, current_node, started, notInteractVars>>

\* ActionsFrozen and util::criteria::is_frozen
is_frozen == freeze_count > 0

\* Mutant: the run condition without not(is_frozen).
display_runs_when_frozen == has_dialogue_runner

\* not(is_frozen).and_then(in_state(GameState::Playing))
\*     .and_then(any_with_component::<DialogueRunner>())
display_run_condition == ~is_frozen /\ has_dialogue_runner

\* The DialogTarget display_interaction_prompt finds, None when it returns early.
prompt_target ==
    IF interaction_opportunity # None /\ Unwrap(interaction_opportunity) \in DialogTargets
    THEN interaction_opportunity
    ELSE None

\* Whether this run of display_interaction_prompt reaches start_node.
starts_dialogue ==
    /\ display_run_condition
    /\ prompt_target # None
    /\ primary_window
    /\ just_pressed

display_interaction_prompt ==
    /\ "display_interaction_prompt" \notin interactRan
    /\ IF starts_dialogue
       THEN /\ current_node' = prompt_target
            /\ freeze_count' = freeze_count + 1
            /\ started' = started + 1
       ELSE UNCHANGED <<current_node, freeze_count, started>>
    /\ interactRan' = interactRan \cup {"display_interaction_prompt"}
    /\ UNCHANGED <<collisions, camera, just_pressed, primary_window, has_dialogue_runner,
                   interaction_opportunity, notInteractVars>>

\* The next frame begins: the events and the input of the last one are gone.
begin_frame ==
    /\ interactRan = InteractSystems
    /\ interactRan' = {}
    /\ collisions' = <<>>
    /\ just_pressed' = FALSE
    /\ UNCHANGED <<camera, primary_window, has_dialogue_runner, interaction_opportunity,
                   freeze_count, current_node, started, notInteractVars>>

\* Before the systems of the frame run, physics sends a Collision event,
send_collision ==
    /\ interactRan = {}
    /\ Len(collisions) < MaxCollisions
    /\ \E c \in Collision : collisions' = Append(collisions, c)
    /\ UNCHANGED <<interactRan, camera, just_pressed, primary_window, has_dialogue_runner,
                   interaction_opportunity, freeze_count, current_node, started,
                   notInteractVars>>

\* the camera systems spawn, switch or turn the camera,
move_camera ==
    /\ interactRan = {}
    /\ camera' \in {Some(c) : c \in Cameras} \ {camera}
    /\ UNCHANGED <<interactRan, collisions, just_pressed, primary_window,
                   has_dialogue_runner, interaction_opportunity, freeze_count,
                   current_node, started, notInteractVars>>

\* and the input manager sees the Interact key go down.
press_interact ==
    /\ interactRan = {}
    /\ ~just_pressed
    /\ just_pressed' = TRUE
    /\ UNCHANGED <<interactRan, collisions, camera, primary_window, has_dialogue_runner,
                   interaction_opportunity, freeze_count, current_node, started,
                   notInteractVars>>

\* The dialogue ends and the dialog system unfreezes the actions.
complete_dialogue ==
    /\ current_node # None
    /\ current_node' = None
    /\ freeze_count' = freeze_count - 1
    /\ started' = 0
    /\ UNCHANGED <<interactRan, collisions, camera, just_pressed, primary_window,
                   has_dialogue_runner, interaction_opportunity, notInteractVars>>

\* The primary window is open and a DialogueRunner was spawned.
InteractWired == primary_window = TRUE /\ has_dialogue_runner = TRUE

\* InteractionOpportunity::default(), nothing frozen, no dialogue running.
InteractIdle ==
    /\ interactRan = InteractSystems
    /\ collisions = <<>>
    /\ camera = None
    /\ just_pressed = FALSE
    /\ interaction_opportunity = None
    /\ freeze_count = 0
    /\ current_node = None
    /\ started = 0

OthersIdle == TopIdle /\ SpawnInit /\ AnimInit /\ InteractIdle /\ InteractWired


\* State after the bodies were spawned with links l and masses m, before the
\* first tick.
MovementInit(l, m) ==
    /\ tick = 0
    /\ phase = "physics"
    /\ done = {}
    /\ dt = <<1, 10>>
    /\ force = [b \in Bodies |-> ZERO]
    /\ velocity = [b \in Bodies |-> ZERO]
    /\ grounded = [b \in Bodies |-> FALSE]
    /\ jump = [b \in Bodies |-> FALSE]
    /\ walker = [b \in Bodies |-> None]
    /\ controller = [b \in Bodies |-> None]
    /\ output = [b \in Bodies |-> None]
    /\ link = l
    /\ transform = [e \in {Model(b) : b \in Bodies} |-> Vec3(RZero, RZero, <<-1, 1>>)]
    /\ playing = [e \in {Model(b) : b \in Bodies} |-> "none"]
    /\ v0 = [b \in Bodies |-> ZERO]
    /\ pressed = {}
    /\ jumped = [b \in Bodies |-> ZERO]
    /\ outputOf = [b \in Bodies |-> 0]
    /\ seen = [s \in {"rotate_model", "play_animations"} |-> [b \in Bodies |-> -1]]
    /\ mass = m
    /\ aborted = FALSE

\* Every link resolves and every mass is positive: the wiring the spawner is
\* to have completed before the systems run on a body.
Init == MovementInit([b \in Bodies |-> Model(b)], SpawnMass) /\ OthersIdle

\* The spawner may have left a body with the default link.
InitLink ==
    \E l \in [Bodies -> {DefaultLink} \cup {Model(b) : b \in Bodies}] :
        /\ \A b \in Bodies : l[b] \in {DefaultLink, Model(b)}
        /\ MovementInit(l, SpawnMass)
        /\ OthersIdle

\* Mass is a plain f32 component: nothing keeps a spawner from a mass <= 0.
InitMass ==
    \E m1 \in {<<1, 1>>, <<-1, 1>>} :
        /\ MovementInit([b \in Bodies |-> Model(b)],
                        [b \in Bodies |-> IF b = 1 THEN m1 ELSE <<2, 1>>])
        /\ OthersIdle

Next ==
    \/ update_grounded
    \/ apply_gravity
    \/ apply_walking
    \/ apply_jumping
    \/ apply_drag
    \/ apply_force
    \/ reset_movement_components
    \/ rotate_model
    \/ play_animations
    \/ step_character_controller
    \/ begin_tick

Spec == Init /\ [][Next]_vars

\* The movement systems on bodies whose link may not resolve.
SpecLink == InitLink /\ [][Next]_vars

\* The movement systems on bodies whose mass may not be positive.
SpecMass == InitMass /\ [][Next]_vars

InitTop == MovementInit([b \in Bodies |-> Model(b)], SpawnMass) /\ TopInit /\ SpawnInit /\ AnimInit /\ InteractIdle /\ InteractWired

NextTop ==
    \/ call_get_top_parent
    \/ loop_get_top_parent
    \/ return_get_top_parent

\* get_top_parent on every acyclic hierarchy of MaxEntities entities.
SpecTop == InitTop /\ [][NextTop]_vars

InitSpawn ==
    MovementInit([b \in Bodies |-> Model(b)], SpawnMass) /\ TopIdle /\ SpawnInit /\ AnimInit /\ InteractIdle /\ InteractWired

NextSpawn ==
    \/ send_spawn_event
    \/ spawn_requested

\* spawn_requested over every sequence of up to MaxEvents events and runs.
SpecSpawn == InitSpawn /\ [][NextSpawn]_vars

InitAnim ==
    MovementInit([b \in Bodies |-> Model(b)], SpawnMass) /\ TopInit /\ SpawnInit /\ AnimInit /\ InteractIdle /\ InteractWired

NextAnim ==
    \/ add_animation_players
    \/ link_animations

\* link_animations on every acyclic hierarchy of MaxEntities entities.
SpecAnim == InitAnim /\ [][NextAnim]_vars

InitInteract ==
    /\ MovementInit([b \in Bodies |-> Model(b)], SpawnMass) /\ TopIdle /\ SpawnInit /\ AnimInit
    /\ InteractIdle
    /\ primary_window \in BOOLEAN
    /\ has_dialogue_runner \in BOOLEAN

NextInteract ==
    \/ begin_frame
    \/ send_collision
    \/ move_camera
    \/ press_interact
    \/ update_interaction_opportunities
    \/ display_interaction_prompt
    \/ complete_dialogue

\* The two systems of interactions_ui.rs, in either order within a frame.
SpecInteract == InitInteract /\ [][NextInteract]_vars

\* ----------------------------------------------------------------- claims
Ran(s) == s \in done
ForceStages == {"apply_gravity", "apply_walking", "apply_jumping", "apply_drag"}

\* The state apply_force left, before the reset of the same tick touches it.
Integrated == Ran("apply_force") /\ ~Ran("reset_movement_components")

\* C1: in every admissible order of a tick update_grounded runs before
\* apply_gravity, apply_walking and apply_jumping; apply_drag runs after
\* apply_gravity and apply_walking; apply_force runs after all four force
\* stages; reset_movement_components runs after apply_force.
C1_StageOrder ==
    /\ (Ran("apply_gravity") \/ Ran("apply_walking") \/ Ran("apply_jumping"))
          => Ran("update_grounded")
    /\ Ran("apply_drag") => Ran("apply_gravity") /\ Ran("apply_walking")
    /\ Ran("apply_force") => ForceStages \subseteq done
    /\ Ran("reset_movement_components") => Ran("apply_force")

\* A second tick in which the whole chain has run while both presentation
\* systems are still pending.
C1_Witness ==
    /\ tick = 2
    /\ done = Systems \ {"rotate_model", "play_animations"}

\* The contributions of one tick, each computed from the tick's inputs.
GravityTerm(b) == gravitational_force(b)
WalkingTerm(b) == IF walker[b] = None THEN ZERO
                  ELSE VMul(VMul(Unwrap(walker[b]),
                                 IF grounded[b] THEN GroundAcceleration
                                                ELSE AirAcceleration), Mass[b])
JumpingTerm(b) == IF jump[b] /\ grounded[b]
                  THEN VDiv(VMul(ControllerUp[b], JumpImpulse[b]), dt) ELSE ZERO
DragTerm(b) == calculate_force(v0[b])
TickForce(b) == VAdd(VAdd(VAdd(GravityTerm(b), WalkingTerm(b)), JumpingTerm(b)), DragTerm(b))

\* C2: in every tick and under every admissible order, the Force apply_force
\* reads is the sum of that tick's gravity, walking, jumping and drag
\* contributions, each once, with nothing left from an earlier tick.
C2_ForceIsTickSum ==
    Integrated => \A b \in Bodies : force[b] = TickForce(b)

\* Second tick, after a first tick that left a velocity: body 1 walks and
\* jumps, body 2 walks airborne, and apply_force has read the accumulator.
C2_Witness ==
    /\ tick = 2 /\ Integrated
    /\ jumped[1] # ZERO /\ walker[1] # None /\ v0[1] # ZERO
    /\ ~grounded[2] /\ walker[2] # None

\* C3: after reset_movement_components Force is zero, Walker.direction is
\* None and Jump.requested is false for every body, and a second reset would
\* change nothing.
C3_ResetClears ==
    Ran("reset_movement_components") =>
        /\ \A b \in Bodies : force[b] = ZERO /\ walker[b] = None /\ ~jump[b]
        /\ [b \in Bodies |-> reset_force(b)] = force
        /\ [b \in Bodies |-> reset_walker(b)] = walker
        /\ [b \in Bodies |-> reset_jump(b)] = jump

\* The reset has run in a tick in which body 1 jumped and body 2's request
\* was made airborne (so Force and the request were set before it).
C3_Witness ==
    /\ Ran("reset_movement_components")
    /\ pressed = Bodies /\ jumped[1] # ZERO /\ ~grounded[2]
    /\ velocity[1] # v0[1]

\* The velocity of body b after a tick without any jump term.
VelocityWithoutJump(b) ==
    VAdd(v0[b],
         VMul(VDiv(VAdd(VAdd(GravityTerm(b), WalkingTerm(b)), DragTerm(b)), Mass[b]), dt))

\* C4: apply_jumping adds a jump contribution iff Jump.requested and the body
\* is grounded; otherwise it leaves Force as it was and the velocity after
\* the tick is the one of a tick without a jump.
C4_JumpGating ==
    /\ (Ran("apply_jumping") /\ ~Ran("reset_movement_components")) =>
          \A b \in Bodies : (jumped[b] # ZERO) <=> (jump[b] /\ grounded[b])
    /\ Integrated =>
          \A b \in Bodies : ~(jump[b] /\ grounded[b]) =>
              /\ force[b] = VAdd(VAdd(GravityTerm(b), WalkingTerm(b)), DragTerm(b))
              /\ velocity[b] = VelocityWithoutJump(b)

\* Body 1 requested a jump while airborne, body 2 while grounded, and
\* apply_force has run.
C4_Witness ==
    /\ Integrated
    /\ jump[1] /\ ~grounded[1] /\ jumped[1] = ZERO
    /\ jump[2] /\ grounded[2] /\ jumped[2] # ZERO

\* C5: a jump impulse is only ever produced for a request made for the
\* current tick, and the reset discards the request whether or not it was
\* honoured, so an old request never fires later.
C5_RequestLastsOneTick ==
    /\ \A b \in Bodies : jumped[b] # ZERO => b \in pressed
    /\ Ran("reset_movement_components") => \A b \in Bodies : ~jump[b]
    /\ phase = "update" => \A b \in Bodies : jump[b] => b \in pressed

\* After the reset of a tick in which body 1's request was honoured and
\* body 2's was made airborne: both are gone.
C5_Witness ==
    /\ Ran("reset_movement_components")
    /\ 1 \in pressed /\ jumped[1] # ZERO
    /\ 2 \in pressed /\ ~grounded[2] /\ jumped[2] = ZERO
    /\ ~jump[1] /\ ~jump[2]

\* C6: for a grounded body with a requested jump the velocity change the
\* jump term causes over the tick is up * impulse / mass, whatever dt is.
C6_JumpImpulseIdentity ==
    Integrated =>
        \A b \in Bodies : (jump[b] /\ grounded[b]) =>
            /\ integrated_velocity(jumped[b], ZERO, b)
                  = VMul(ControllerUp[b], RDiv(JumpImpulse[b], Mass[b]))
            /\ velocity[b]
                  = VAdd(VelocityWithoutJump(b),
                         VMul(ControllerUp[b], RDiv(JumpImpulse[b], Mass[b])))

\* Body 2 (mass 2) has jumped in a tick of half a second.
C6_Witness ==
    /\ Integrated /\ dt = <<1, 2>>
    /\ jump[2] /\ grounded[2] /\ jumped[2] # ZERO

\* C7: apply_force sets velocity to v0 + (Force / mass) * dt and requests the
\* displacement v0 * dt + 0.5 * (Force / mass) * dt * dt; with mass 2, g 9.8,
\* zero velocity, dt 0.1 and gravity only that is velocity.y = -0.98 and
\* displacement.y = -0.049.
C7_Integration ==
    Integrated =>
        /\ \A b \in Bodies :
              LET a == VDiv(force[b], Mass[b])
              IN  /\ velocity[b] = VAdd(v0[b], VMul(a, dt))
                  /\ controller[b] =
                        Some(VAdd(VMul(v0[b], dt), VMul(VMul(a, RMul(dt, dt)), RHalf)))
        /\ (tick = 1 /\ dt = <<1, 10>> /\ walker[2] = None) =>
              /\ velocity[2][2] = <<-49, 50>>
              /\ Unwrap(controller[2])[2] = <<-49, 1000>>

\* The gravity-only example: body 2 (mass 2) in the first tick, dt 0.1.
C7_Witness ==
    /\ Integrated /\ tick = 1 /\ dt = <<1, 10>> /\ walker[2] = None
    /\ v0[2] = ZERO /\ force[2] = Vec3(RZero, <<-98, 5>>, RZero)
    /\ velocity[2] = Vec3(RZero, <<-49, 50>>, RZero)
    /\ controller[2] = Some(Vec3(RZero, <<-49, 1000>>, RZero))

\* C8 (as claimed): whenever play_animations has read a body's ground flag in
\* a tick, update_grounded has already refreshed the flag in that tick.
C8_AnimationsAfterGrounded ==
    (\E b \in Bodies : seen["play_animations"][b] # -1) => Ran("update_grounded")

C10_GroundedIsLatestOutput ==
    (phase = "update" /\ Ran("update_grounded")) =>
        \A b \in WithOutput : grounded[b] = Unwrap(output[b]).grounded

\* update_grounded has turned body 1's flag (false since spawn) to true and
\* left body 2 airborne.
C10_Witness ==
    /\ tick = 2 /\ phase = "update" /\ Ran("update_grounded")
    /\ grounded[1] /\ Unwrap(output[1]).grounded
    /\ ~grounded[2] /\ ~Unwrap(output[2]).grounded

\* The clip the selector is to choose for a ground flag and a resolved motion.
ClipFor(is_grounded, resolved) ==
    CASE ~is_grounded -> "aerial"
      [] is_grounded /\ ~is_approx_zero(x0z(resolved)) -> "walk"
      [] is_grounded /\ is_approx_zero(x0z(resolved)) -> "idle"

\* A step of the named system of the set.
Runs(s) == s \notin done /\ done' = done \cup {s}

\* C11: play_animations gives every body it processes exactly one clip, a
\* function of the ground flag and of whether the horizontal resolved
\* displacement is approximately zero: aerial when airborne, walk when
\* grounded and moving, idle when grounded and not moving.
C11_ClipSelection ==
    [][Runs("play_animations") =>
          \A b \in WithOutput :
              /\ playing'[link[b]] = ClipFor(grounded[b], Unwrap(output[b]).effective_translation)
              /\ ~grounded[b] => playing'[link[b]] \notin {"walk", "idle"}]_vars

\* An airborne body with horizontal motion plays aerial while the other body,
\* grounded and moving, plays walk.
C11_Witness ==
    /\ Ran("play_animations") /\ Ran("update_grounded") /\ phase = "update"
    /\ ~grounded[1] /\ 1 \in Moving /\ playing[link[1]] = "aerial"
    /\ grounded[2] /\ 2 \in Moving /\ playing[link[2]] = "walk"

\* Whether the link of a body names an existing presentation entity.
LinkResolves(b) == link[b] \in DOMAIN transform /\ link[b] \in DOMAIN playing

\* Whether the horizontal part of the resolved motion of a body is about zero.
Still(b) == is_approx_zero(x0z(Unwrap(output[b]).effective_translation))

\* C12: for a body whose horizontal resolved displacement is approximately
\* zero, rotate_model leaves the transform of the presentation entity as it
\* was and does not resolve the link (an unresolvable link of such a body does
\* not abort the system); a transform changes only in a rotate_model step and
\* only for the presentation entity of a body with non-zero horizontal
\* resolved displacement.
C12_RotationOnlyWhenMoving ==
    [][/\ Runs("rotate_model") =>
             /\ \A b \in WithOutput :
                   (Still(b) /\ LinkResolves(b)) => transform'[link[b]] = transform[link[b]]
             /\ aborted' => \E b \in WithOutput : ~Still(b) /\ ~LinkResolves(b)
       /\ \A e \in DOMAIN transform :
             transform'[e] # transform[e] =>
                 /\ Runs("rotate_model")
                 /\ \E b \in WithOutput : ~Still(b) /\ link[b] = e]_vars

\* rotate_model has visited a standing body whose link is the default one and
\* a standing body whose link resolves, and has not aborted.
C12_Witness ==
    /\ Ran("rotate_model") /\ ~aborted /\ ~Ran("play_animations")
    /\ \A b \in Bodies : seen["rotate_model"][b] # -1 /\ Still(b)
    /\ ~LinkResolves(1) /\ LinkResolves(2)
    /\ transform[link[2]] = Vec3(RZero, RZero, <<-1, 1>>)

\* C13: only apply_force changes a Velocity, so until apply_force runs, and
\* in particular when apply_drag reads it, every Velocity is the one the tick
\* began with.
C13_VelocityOnlyByApplyForce ==
    /\ [][velocity' # velocity => Runs("apply_force")]_vars
    /\ []((tick > 0 /\ ~Ran("apply_force")) => velocity = v0)

\* Both bodies move and the whole set but apply_force and the reset has run
\* in the second tick.
C13_Witness ==
    /\ tick = 2 /\ phase = "update"
    /\ done = Systems \ {"apply_force", "reset_movement_components"}
    /\ \A b \in Bodies : velocity[b] # ZERO /\ velocity[b] = v0[b]

\* C14: a tick in which rotate_model or play_animations has processed a body
\* whose link does not resolve ends in a fatal abort: once play_animations has
\* run the abort has happened, and before that only rotate_model's pass over
\* a body without horizontal motion has let the link by.
C14_InvalidLinkAborts ==
    /\ \A b \in Bodies :
          (seen["play_animations"][b] # -1 /\ ~LinkResolves(b)) => aborted
    /\ \A b \in Bodies :
          (seen["rotate_model"][b] # -1 /\ ~LinkResolves(b) /\ ~aborted) =>
              /\ Still(b)
              /\ ~Ran("play_animations")
              /\ phase = "update"

\* rotate_model let the default link of a standing body by, and play_animations
\* then aborted on it in the same tick.
C14_Witness ==
    /\ aborted /\ Ran("rotate_model") /\ Ran("play_animations")
    /\ seen["rotate_model"][1] # -1 /\ Still(1) /\ ~LinkResolves(1)
    /\ seen["play_animations"][1] # -1

\* C15 (as claimed): once apply_force has run in a tick with a body whose mass
\* is zero or negative, the tick has been aborted and that body's velocity is
\* still the one the tick began with.
C15_NoDivisionByBadMass ==
    \A b \in Bodies :
        (Ran("apply_force") /\ mass[b][1] <= 0) => (aborted /\ velocity[b] = v0[b])

\* The start entity and every entity above it in the hierarchy.
RECURSIVE AncestorsOrSelf(_)
AncestorsOrSelf(e) ==
    {e} \cup (IF parent[e] = 0 THEN {} ELSE AncestorsOrSelf(parent[e]))

\* C18: on every acyclic hierarchy and from every start entity get_top_parent
\* returns after fewer loop turns than the start entity has ancestors-or-self,
\* and the entity it returns is an ancestor-or-self of the start entity: the
\* start entity itself when that has no parent, and otherwise the one whose
\* parent is the root (so the start entity again when it is the root's child).
C18_TopParent ==
    /\ topPc # "idle" => iterations < Cardinality(AncestorsOrSelf(curr_entity))
    /\ topPc = "returned" =>
          /\ top_entity \in AncestorsOrSelf(curr_entity)
          /\ parent[curr_entity] = 0 => top_entity = curr_entity
          /\ parent[curr_entity] # 0 =>
                /\ parent[top_entity] # 0
                /\ parent[parent[top_entity]] = 0
          /\ (parent[curr_entity] # 0 /\ parent[parent[curr_entity]] = 0) =>
                top_entity = curr_entity

\* get_top_parent has returned from a start entity three levels below the
\* root, after three turns of the loop, with an entity other than the start.
C18_Witness ==
    /\ topPc = "returned"
    /\ iterations = 3
    /\ top_entity # curr_entity
    /\ parent[top_entity] # 0
    /\ parent[parent[top_entity]] = 0

\* The container entities carrying a name.
Containers(n) == {e \in DOMAIN world : world[e].container /\ world[e].name = n}

\* The parent names the events read so far have given.
NamesRequested ==
    {n \in ParentNames :
        \E e \in DOMAIN world : ~world[e].container /\ Unwrap(world[e].request).parent = Some(n)}

\* C16: there is never more than one container entity of a name; a name has
\* a container, the registered one, exactly when an event read so far named
\* it; the object of every event naming a parent is a child of the container
\* registered under that name and the object of an event without a parent has
\* no parent; a registry entry, once made, is never changed, and a run that
\* reads only events without a parent leaves the registry as it was and
\* creates no container.
C16_OneContainerPerName ==
    /\ [](\A n \in ParentNames :
            /\ Cardinality(Containers(n)) <= 1
            /\ Containers(n) = IF n \in NamesRequested THEN {spawn_containers[n]} ELSE {}
            /\ n \notin NamesRequested => spawn_containers[n] = 0)
    /\ [](\A e \in DOMAIN world :
            ~world[e].container =>
                LET spawn == Unwrap(world[e].request)
                IN  IF spawn.parent = None THEN world[e].child_of = 0
                    ELSE world[e].child_of = spawn_containers[Unwrap(spawn.parent)])
    /\ [][/\ \A n \in ParentNames :
                spawn_containers[n] # 0 => spawn_containers'[n] = spawn_containers[n]
          /\ (\A i \in DOMAIN spawn_requests : spawn_requests[i].parent = None) =>
                /\ spawn_containers' = spawn_containers
                /\ \A e \in DOMAIN world' : world'[e].container => e \in DOMAIN world]_vars

\* Two events of one run and one of a later run named "a" and all three
\* objects hang under the one container; an event without a parent was read.
C16_Witness ==
    /\ spawn_requests = <<>>
    /\ Len(world) = 5
    /\ world[1].container /\ world[1].name = "a" /\ spawn_containers["a"] = 1
    /\ world[2].child_of = 1 /\ world[3].child_of = 1
    /\ world[4].child_of = 0 /\ world[4].request # None
    /\ world[5].child_of = 1

\* The players discovered so far under top parent t, in discovery order.
DiscoveredUnder(t) == SelectSeq(discovered, LAMBDA e : get_top_parent(e) = t)

\* C17 (as claimed): the link of a top parent is the first player discovered
\* under it, and every further player discovered under it was warned about.
C17_FirstDiscoveredLinks ==
    \A t \in Entities :
        LET ds == DiscoveredUnder(t)
        IN  ds # <<>> =>
                /\ animation_link[t] = Some(ds[1])
                /\ \A i \in 2 .. Len(ds) : \E j \in DOMAIN warned : warned[j] = ds[i]

\* Whether the contacts are a collision of the current frame between the
\* player and a sensor whose parent t has a DialogTarget and lies within an
\* eighth of a turn of the camera's forward direction as seen from the player,
\* or is seen by a fixed-angle camera.
OpportunityFor(contacts, t) ==
    /\ contacts.during_current_frame
    /\ \E pl \in Players, sensor \in DOMAIN SensorParent :
          /\ {contacts.entity1, contacts.entity2} = {pl, sensor}
          /\ SensorParent[sensor] = t
          /\ t \in DialogTargets
          /\ camera # None
          /\ \/ Unwrap(camera).kind = "FixedAngle"
             \/ LET f == Unwrap(camera).forward
                    d == VAdd(Translation[t], VNeg(Translation[pl]))
                IN  /\ RLess(RZero, dot(f, d))
                    /\ RLess(RMul(length_squared(f), length_squared(d)),
                             RMul(<<2, 1>>, RMul(dot(f, d), dot(f, d))))

\* C19: a run of update_interaction_opportunities leaves the opportunity
\* Some(t) only if one of the collisions it read is such an opportunity for
\* t, and None otherwise, whatever the opportunity was before the run; no
\* other step changes the opportunity.
C19_OpportunityIsFresh ==
    [][IF "update_interaction_opportunities" \in interactRan' \ interactRan
       THEN /\ \A t \in DialogTargets :
                  interaction_opportunity' = Some(t) =>
                      \E i \in DOMAIN collisions : OpportunityFor(collisions[i], t)
            /\ interaction_opportunity' \in {None} \cup {Some(t) : t \in DialogTargets}
            /\ (\A i \in DOMAIN collisions, t \in DialogTargets :
                    ~OpportunityFor(collisions[i], t)) => interaction_opportunity' = None
       ELSE interaction_opportunity' = interaction_opportunity]_vars

\* A dialogue was started from the opportunity Some(2) an earlier run had
\* left, and a later run has read collisions none of which is an opportunity:
\* the opportunity is None again.
C19_Witness ==
    /\ "update_interaction_opportunities" \in interactRan
    /\ interaction_opportunity = None
    /\ collisions # <<>>
    /\ current_node = Some(2)

\* C20: a step that starts a dialogue node is a run of
\* display_interaction_prompt with the actions not frozen, the opportunity an
\* entity with a DialogTarget and Interact just pressed, and it leaves the
\* actions frozen; while the actions are frozen no node is started, and at
\* most one node has been started since the actions were last unfrozen.
C20_DialogueStartsOnce ==
    /\ [][(started' > started \/ (current_node' # current_node /\ current_node' # None)) =>
              /\ "display_interaction_prompt" \in interactRan' \ interactRan
              /\ freeze_count = 0
              /\ interaction_opportunity # None
              /\ Unwrap(interaction_opportunity) \in DialogTargets
              /\ just_pressed
              /\ current_node' = interaction_opportunity
              /\ started' = started + 1
              /\ freeze_count' > 0]_vars
    /\ [](started <= 1)
    /\ [](started = 1 => freeze_count > 0)

\* display_interaction_prompt has started the node of target 4 in this frame,
\* in which Interact was just pressed, and the actions are frozen.
C20_Witness ==
    /\ started = 1 /\ freeze_count = 1
    /\ current_node = Some(4)
    /\ just_pressed
    /\ "display_interaction_prompt" \in interactRan
    /\ interaction_opportunity = Some(4)

====
